---- MODULE Spec2Model ----
(***************************************************************************)
(* The dm510 character device (src/dm510_dev.c): one struct dm510_device   *)
(* with its ring buffer (data, buffer_size, head, tail), its semaphore and *)
(* its two wait queues and its counts of openers, driven by processes     *)
(* that call open, release, read, write and ioctl on it.  Code between     *)
(* down() and up() is one step; a process waiting for the semaphore,       *)
(* testing a wait condition or sleeping on a wait queue is at a position   *)
(* of its own.                                                             *)
(***************************************************************************)
EXTENDS Integers, Sequences, FiniteSets, TLC

\* ------------------------------------------------------------------ bounds
\* #define BUFFER_SIZE 1024 (src/dm510_dev.c:13), scaled down: the ring
\* arithmetic of read and write is modulo this number.
BUFFER_SIZE == 3
\* Largest new_size passed to SET_BUFFER_SIZE (above and below BUFFER_SIZE).
MaxSize == 4
\* Largest count passed to read and write.
MaxCount == 2
\* Bytes are 0..MaxByte; 0 is also the byte kzalloc leaves.
MaxByte == 1
\* Number of processes using the device.
NumProc == 2
\* SET_BUFFER_SIZE can set tail to a negative used_space; the model follows
\* tail down to -MaxNeg.
MaxNeg == 1

Procs == 1..NumProc
Bytes == 0..MaxByte
Min(a, b) == IF a < b THEN a ELSE b
\* The remainder of C's signed int division (truncation toward zero).
CRem(a, m) == IF a >= 0 THEN a % m ELSE 0 - ((0 - a) % m)

\* Sequences over S of length 0..n.
SeqUpTo(S, n) == UNION {[1..k -> S] : k \in 0..n}

VARIABLES
    data,         \* dev->data: the allocation, indexed 0..buffer_size-1
    buffer_size,  \* dev->buffer_size
    head,         \* dev->head
    tail,         \* dev->tail
    sem,          \* dev->sem: the semaphore's count
    held,         \* the processes between a down and the up that follows it
    pc,           \* position of each process
    op,           \* the call a process is in ("none": in no call)
    nb,           \* filp->f_flags & O_NONBLOCK of the call in progress
    cnt,          \* count argument of the read/write in progress
    ubuf,         \* user buffer of the write in progress
    arg,          \* new_size of the SET_BUFFER_SIZE in progress
    hist,         \* history variables are kept (constant in a behaviour)
    last,         \* history: the call that returned last, and what it returned
    fifo,         \* history: the bytes accepted and delivered since Init
    snap,         \* history: free space reported for the present ring state
    nreaders,     \* dev->nreaders
    nwriters,     \* dev->nwriters
    f_flags       \* filp->f_flags & O_ACCMODE of each process's file ("none":
                  \* the process has no file)

dev == <<data, buffer_size, head, tail, sem, held>>
ring == <<data, buffer_size, head, tail>>
args == <<op, nb, cnt, ubuf, arg>>
files == <<nreaders, nwriters, f_flags>>
vars == <<data, buffer_size, head, tail, sem, held,
          pc, op, nb, cnt, ubuf, arg, hist, last, fifo, snap,
          nreaders, nwriters, f_flags>>

\* --------------------------------------------------------------- the ring
\* Line 79: the test of read's while loop and wait condition.
ReadEmpty == head = tail
\* Line 114: the test of write's while loop and wait condition (int
\* arithmetic).
WriteFull == CRem(tail + 1, BUFFER_SIZE) = head

\* Lines 89-92: the number of bytes one read copies.
ReadCount(count) ==
    IF head < tail THEN Min(count, tail - head)
                   ELSE Min(count, BUFFER_SIZE - head)
\* Line 124: the number of bytes one write copies. (size_t)(BUFFER_SIZE -
\* tail) is huge when tail > BUFFER_SIZE, and min then yields count.
WriteCount(count) ==
    IF BUFFER_SIZE - tail < 0 THEN count ELSE Min(count, BUFFER_SIZE - tail)

\* Lines 97 and 129: (index + count) % BUFFER_SIZE in size_t arithmetic.
\* 2^64 is a multiple of 1024, so the result is the index modulo
\* BUFFER_SIZE also when the index is negative.
Advance(index, count) == (index + count) % BUFFER_SIZE

\* Lines 159 and 203-207: used_space as the ioctls compute it.
UsedSpace ==
    IF tail >= head THEN tail - head ELSE buffer_size - (head - tail)
\* FreeSpace with the "- 1" of line 189 left out.
FreeSpaceNoSlot ==
    IF tail >= head THEN buffer_size - (tail - head)
                    ELSE (head - tail) - 1
\* Lines 188-192: free_space as GET_BUFFER_FREE_SPACE computes it.
FreeSpace ==
    IF tail >= head THEN buffer_size - (tail - head) - 1
                    ELSE (head - tail) - 1

\* An index of the allocation kzalloc(buffer_size) returned.
InAlloc(i) == i >= 0 /\ i < buffer_size

\* Line 93, copy_to_user(buf, dev->data + dev->head, count): the byte
\* sequences the copy can deliver. A byte outside the allocation is whatever
\* the neighbouring memory holds.
ReadBytes(n) ==
    {s \in [1..n -> Bytes] :
        \A i \in 1..n : InAlloc(head + i - 1) => s[i] = data[head + i - 1]}

\* Line 125, copy_from_user(dev->data + dev->tail, buf, count): the
\* allocation after the copy. Bytes stored outside the allocation land in
\* neighbouring memory.
StoreBytes(s, n) ==
    [i \in DOMAIN data |->
        IF i >= tail /\ i < tail + n THEN s[i - tail + 1] ELSE data[i]]
\* The allocation after a faulting copy_from_user of the n bytes s:
\* untouched (the user range is refused), or the first k < n bytes stored
\* and the rest of the destination zero-filled.
FaultBytes(s, n) ==
    {data} \cup
    {[i \in DOMAIN data |->
        IF i >= tail /\ i < tail + n
          THEN IF i - tail < k THEN s[i - tail + 1] ELSE 0
          ELSE data[i]] : k \in 0..(n - 1)}

\* ---------------------------------------------------------------- history
NoCall == [op |-> "none", err |-> "none", val |-> 0, buf |-> <<>>, arg |-> 0]
\* phase "w": only writes have succeeded since Init and the bytes they
\* accepted, wr, number at most buffer_size; phase "r": reads have followed
\* these writes and delivered rd; phase "x": anything else.
NoFifo == [phase |-> "x", wr |-> <<>>, rd |-> <<>>]
NoSnap == [set |-> FALSE, val |-> 0]

\* The first n elements of s.
Prefix(s, n) == [i \in 1..n |-> s[i]]

\* fifo after a write accepted the bytes s.
FifoWrite(s) ==
    IF ~hist THEN fifo
    ELSE IF fifo.phase = "w" /\ Len(fifo.wr) + Len(s) <= buffer_size
           THEN [fifo EXCEPT !.wr = fifo.wr \o s]
           ELSE IF s = <<>> THEN fifo ELSE NoFifo
\* fifo after a read delivered the bytes s.
FifoRead(s) ==
    IF ~hist \/ fifo.phase = "x" THEN fifo
    ELSE IF Len(fifo.rd) + Len(s) <= Len(fifo.wr)
           THEN [fifo EXCEPT !.phase = "r", !.rd = fifo.rd \o s]
           ELSE [phase |-> "r", wr |-> fifo.wr, rd |-> Prefix(fifo.rd \o s, Len(fifo.wr) + 1)]

\* ------------------------------------------------------------------- Init
\* buffer_init, lines 238-249.
InitDev ==
    /\ data = [i \in 0..(BUFFER_SIZE - 1) |-> 0]
    /\ buffer_size = BUFFER_SIZE
    /\ head = 0
    /\ tail = 0
    /\ sem = 1
    /\ held = {}
    /\ pc = [p \in Procs |-> "idle"]
    /\ op = [p \in Procs |-> "none"]
    /\ nb = [p \in Procs |-> FALSE]
    /\ cnt = [p \in Procs |-> 0]
    /\ ubuf = [p \in Procs |-> <<>>]
    /\ arg = [p \in Procs |-> 0]
    /\ last = NoCall
    /\ snap = NoSnap
    /\ nreaders = 0
    /\ nwriters = 0

\* Every process holds the device open for reading and writing (dm510_open
\* counts no O_RDWR opener) and keeps it open.
Init ==
    /\ InitDev
    /\ hist = FALSE
    /\ fifo = NoFifo
    /\ f_flags = [p \in Procs |-> "O_RDWR"]

\* ---------------------------------------------------------------- helpers
\* Process p can make the call o: read, write and ioctl reach the driver
\* through a file that dm510_open has opened (filp->private_data, lines 40,
\* 73, 108, 140), read through one opened for reading, write through one
\* opened for writing.
Opened(p, o) ==
    /\ pc[p] = "idle"
    /\ f_flags[p] \in CASE o = "read" -> {"O_RDONLY", "O_RDWR"}
                        [] o = "write" -> {"O_WRONLY", "O_RDWR"}
                        [] OTHER -> {"O_RDONLY", "O_WRONLY", "O_RDWR"}

\* A system call of process p begins: its arguments are recorded.
Enter(p, o, at, nonblock, count, buf, a) ==
    /\ Opened(p, o)
    /\ pc' = [pc EXCEPT ![p] = at]
    /\ op' = [op EXCEPT ![p] = o]
    /\ nb' = [nb EXCEPT ![p] = nonblock]
    /\ cnt' = [cnt EXCEPT ![p] = count]
    /\ ubuf' = [ubuf EXCEPT ![p] = buf]
    /\ arg' = [arg EXCEPT ![p] = a]
    /\ UNCHANGED <<hist, last, fifo, snap, files>>

\* The call o of process p returns errno e ("none": success) and value v;
\* buf is what a read delivered, a the new_size of a SET_BUFFER_SIZE.
Return(p, o, e, v, buf, a) ==
    /\ last' = IF hist
                 THEN [op |-> o, err |-> e, val |-> v, buf |-> buf, arg |-> a]
                 ELSE last
    /\ op' = [op EXCEPT ![p] = "none"]
    /\ nb' = [nb EXCEPT ![p] = FALSE]
    /\ cnt' = [cnt EXCEPT ![p] = 0]
    /\ ubuf' = [ubuf EXCEPT ![p] = <<>>]
    /\ arg' = [arg EXCEPT ![p] = 0]
    /\ UNCHANGED <<hist, files>>

\* The call of process p goes on.
Goes(p, at) ==
    /\ pc' = [pc EXCEPT ![p] = at]
    /\ UNCHANGED <<op, nb, cnt, ubuf, arg, hist, last, fifo, snap, files>>

\* down(&dev->sem) and down_interruptible(&dev->sem) of process p succeed.
Down(p) ==
    /\ sem > 0
    /\ sem' = sem - 1
    /\ held' = held \cup {p}
\* up(&dev->sem) by process p.
Up(p) ==
    /\ sem' = sem + 1
    /\ held' = held \ {p}

\* pc when process p returns.
Idle(p) == [pc EXCEPT ![p] = "idle"]

\* wake_up_interruptible: every process sleeping at `from` goes to test its
\* wait condition again, at `to`.
Woken(from, to) == [x \in Procs |-> IF pc[x] = from THEN to ELSE pc[x]]

\* ------------------------------------------------------------------- read
\* dm510_read is called (line 72).
ReadCall(p) ==
    \E count \in 0..MaxCount, nonblock \in BOOLEAN :
        /\ Enter(p, "read", "r_down", nonblock, count, <<>>, 0)
        /\ UNCHANGED dev

\* down_interruptible succeeds (lines 76, 85).
ReadDown(p) ==
    /\ pc[p] = "r_down"
    /\ Down(p)
    /\ Goes(p, "r_check")
    /\ UNCHANGED ring

\* ReadEmptyStep without the up of line 80: the call goes to wait with the
\* semaphore taken.
ReadEmptyStepNoUp(p) ==
    /\ pc[p] = "r_check"
    /\ ReadEmpty
    /\ IF nb[p]
         THEN /\ pc' = Idle(p)
              /\ Return(p, "read", "EAGAIN", 0, <<>>, 0)
              /\ UNCHANGED <<fifo, snap>>
         ELSE Goes(p, "r_wait")
    /\ UNCHANGED <<ring, sem, held>>

\* Lines 79-82: the buffer is empty; the semaphore is released and the
\* call returns -EAGAIN or goes to wait.
ReadEmptyStep(p) ==
    /\ pc[p] = "r_check"
    /\ ReadEmpty
    /\ Up(p)
    /\ IF nb[p]
         THEN /\ pc' = Idle(p)
              /\ Return(p, "read", "EAGAIN", 0, <<>>, 0)
              /\ UNCHANGED <<fifo, snap>>
         ELSE Goes(p, "r_wait")
    /\ UNCHANGED ring

\* ReadCopy with the wake-up of line 98 before the test of line 93: a
\* faulting read wakes the writers too.
ReadCopyFaultWakes(p) ==
    /\ pc[p] = "r_check"
    /\ ~ReadEmpty
    /\ Up(p)
    /\ snap' = NoSnap
    /\ pc' = [Woken("w_sleep", "w_wait") EXCEPT ![p] = "idle"]
    /\ LET n == ReadCount(cnt[p]) IN
         \E fault \in BOOLEAN :
            IF n > 0 /\ fault
              THEN /\ Return(p, "read", "EFAULT", 0, <<>>, 0)
                   /\ UNCHANGED <<head, fifo>>
              ELSE /\ \E s \in ReadBytes(n) :
                        /\ Return(p, "read", "none", n, s, 0)
                        /\ fifo' = FifoRead(s)
                   /\ head' = Advance(head, n)
    /\ UNCHANGED <<data, buffer_size, tail>>

\* Lines 89-104: the copy to the user, the advance of head, the wake-up of
\* the writers, the release of the semaphore.
ReadCopy(p) ==
    /\ pc[p] = "r_check"
    /\ ~ReadEmpty
    /\ Up(p)
    /\ snap' = NoSnap
    /\ LET n == ReadCount(cnt[p]) IN
         \E fault \in BOOLEAN :
            IF n > 0 /\ fault
              THEN /\ Return(p, "read", "EFAULT", 0, <<>>, 0)
                   /\ pc' = Idle(p)
                   /\ UNCHANGED <<head, fifo>>
              ELSE /\ \E s \in ReadBytes(n) :
                        /\ Return(p, "read", "none", n, s, 0)
                        /\ fifo' = FifoRead(s)
                   /\ head' = Advance(head, n)
                   /\ pc' = [Woken("w_sleep", "w_wait") EXCEPT ![p] = "idle"]
    /\ UNCHANGED <<data, buffer_size, tail>>

\* Line 83, wait_event_interruptible(read_queue, head != tail): the
\* condition is tested without the semaphore; the process goes on to take
\* the semaphore or sleeps on the queue.
ReadWait(p) ==
    /\ pc[p] = "r_wait"
    /\ Goes(p, IF ~ReadEmpty THEN "r_down" ELSE "r_sleep")
    /\ UNCHANGED dev

\* ------------------------------------------------------------------ write
\* dm510_write is called (line 107).
WriteCall(p) ==
    \E buf \in SeqUpTo(Bytes, MaxCount), nonblock \in BOOLEAN :
        /\ Enter(p, "write", "w_down", nonblock, Len(buf), buf, 0)
        /\ UNCHANGED dev

\* WriteDown without the semaphore: the write goes on to its critical
\* section whether or not another call is in its own.
WriteDownNoLock(p) ==
    /\ pc[p] = "w_down"
    /\ held' = held \cup {p}
    /\ UNCHANGED sem
    /\ Goes(p, "w_check")
    /\ UNCHANGED ring

\* down_interruptible succeeds (lines 111, 120).
WriteDown(p) ==
    /\ pc[p] = "w_down"
    /\ Down(p)
    /\ Goes(p, "w_check")
    /\ UNCHANGED ring

\* Lines 114-117: the buffer is full; the semaphore is released and the
\* call returns -EAGAIN or goes to wait.
WriteFullStep(p) ==
    /\ pc[p] = "w_check"
    /\ WriteFull
    /\ Up(p)
    /\ IF nb[p]
         THEN /\ pc' = Idle(p)
              /\ Return(p, "write", "EAGAIN", 0, <<>>, 0)
              /\ UNCHANGED <<fifo, snap>>
         ELSE Goes(p, "w_wait")
    /\ UNCHANGED ring

\* Lines 124-136: the copy from the user, the advance of tail, the wake-up
\* of the readers, the release of the semaphore.
WriteCopy(p) ==
    /\ pc[p] = "w_check"
    /\ ~WriteFull
    /\ Up(p)
    /\ snap' = NoSnap
    /\ LET n == WriteCount(cnt[p]) IN
         \E fault \in BOOLEAN :
            IF n > 0 /\ fault
              THEN /\ Return(p, "write", "EFAULT", 0, <<>>, 0)
                   /\ pc' = Idle(p)
                   /\ data' \in FaultBytes(ubuf[p], n)
                   /\ UNCHANGED <<tail, fifo>>
              ELSE /\ Return(p, "write", "none", n, <<>>, 0)
                   /\ fifo' = FifoWrite(Prefix(ubuf[p], n))
                   /\ data' = StoreBytes(ubuf[p], n)
                   /\ tail' = Advance(tail, n)
                   /\ pc' = [Woken("r_sleep", "r_wait") EXCEPT ![p] = "idle"]
    /\ UNCHANGED <<buffer_size, head>>

\* Line 118, wait_event_interruptible(write_queue, (tail+1)%BUFFER_SIZE !=
\* head).
WriteWait(p) ==
    /\ pc[p] = "w_wait"
    /\ Goes(p, IF ~WriteFull THEN "w_down" ELSE "w_sleep")
    /\ UNCHANGED dev

\* ------------------------------------------------------------ interruption
\* Interrupt with the semaphore taken on the way out: the call returns
\* -ERESTARTSYS between a down and its up.
InterruptLocked(p) ==
    /\ pc[p] \in {"r_sleep", "w_sleep"}
    /\ Down(p)
    /\ pc' = Idle(p)
    /\ Return(p, op[p], "ERESTARTSYS", 0, <<>>, 0)
    /\ UNCHANGED <<ring, fifo, snap>>

\* A signal arrives while the process sleeps in down_interruptible (lines
\* 76, 85, 111, 120; it sleeps there only while the semaphore is taken) or
\* in wait_event_interruptible (lines 83, 118): the call returns
\* -ERESTARTSYS.
Interrupt(p) ==
    /\ pc[p] \in {"r_down", "w_down", "r_sleep", "w_sleep"}
    /\ pc[p] \in {"r_down", "w_down"} => sem = 0
    /\ pc' = Idle(p)
    /\ Return(p, op[p], "ERESTARTSYS", 0, <<>>, 0)
    /\ UNCHANGED <<dev, fifo, snap>>

\* ------------------------------------------------------------------ ioctl
\* GET_BUFFER_SIZE, lines 144-147: no semaphore is taken.
GetSize(p) ==
    /\ Opened(p, "getsize")
    /\ \E fault \in BOOLEAN :
          IF fault THEN Return(p, "getsize", "EFAULT", 0, <<>>, 0)
                   ELSE Return(p, "getsize", "none", buffer_size, <<>>, 0)
    /\ UNCHANGED <<dev, pc, fifo, snap>>

\* SET_BUFFER_SIZE, lines 149-156: new_size cannot be fetched, is not
\* positive, or the new buffer cannot be allocated.
SetSizeRefuse(p) ==
    /\ Opened(p, "setsize")
    /\ \/ Return(p, "setsize", "EFAULT", 0, <<>>, 0)
       \/ \E new_size \in {0 - 1, 0} :
             Return(p, "setsize", "EINVAL", 0, <<>>, new_size)
       \/ \E new_size \in 1..MaxSize :
             Return(p, "setsize", "ENOMEM", 0, <<>>, new_size)
    /\ UNCHANGED <<dev, pc, fifo, snap>>

\* SET_BUFFER_SIZE, lines 149-158: new_size is fetched and positive, the
\* new buffer is allocated; the call waits for the semaphore.
SetSizeCall(p) ==
    \E new_size \in 1..MaxSize :
        /\ Enter(p, "setsize", "s_down", FALSE, 0, <<>>, new_size)
        /\ UNCHANGED dev

\* down(&dev->sem) succeeds (lines 158, 187, 202).
IoctlDown(p) ==
    /\ pc[p] \in {"s_down", "g_down"}
    /\ pc[p] = "s_down" => UsedSpace >= 0 - MaxNeg
    /\ Down(p)
    /\ Goes(p, IF pc[p] = "s_down" THEN "s_crit" ELSE "g_crit")
    /\ UNCHANGED ring

\* SetSize without the test of line 160: the new buffer is installed even
\* when it is smaller than used_space.
SetSizeNoTest(p) ==
    /\ pc[p] = "s_crit"
    /\ Up(p)
    /\ pc' = Idle(p)
    /\ Return(p, "setsize", "none", 0, <<>>, arg[p])
    /\ data' = [i \in 0..(arg[p] - 1) |-> 0]
    /\ buffer_size' = arg[p]
    /\ head' = 0
    /\ tail' = UsedSpace
    /\ fifo' = NoFifo
    /\ snap' = NoSnap

\* SET_BUFFER_SIZE, lines 159-172: the request is refused, or the zeroed
\* new buffer replaces the old one and head and tail are reset.
SetSize(p) ==
    /\ pc[p] = "s_crit"
    /\ Up(p)
    /\ pc' = Idle(p)
    /\ LET used_space == UsedSpace IN
         IF arg[p] < used_space
           THEN /\ Return(p, "setsize", "EINVAL", 0, <<>>, arg[p])
                /\ UNCHANGED <<data, buffer_size, head, tail, fifo, snap>>
           ELSE /\ Return(p, "setsize", "none", 0, <<>>, arg[p])
                /\ data' = [i \in 0..(arg[p] - 1) |-> 0]
                /\ buffer_size' = arg[p]
                /\ head' = 0
                /\ tail' = used_space
                /\ fifo' = NoFifo
                /\ snap' = NoSnap

\* GET_BUFFER_FREE_SPACE and GET_BUFFER_USED_SPACE are called (lines 185,
\* 200).
GetSpaceCall(p) ==
    \E o \in {"getfree", "getused"} :
        /\ Enter(p, o, "g_down", FALSE, 0, <<>>, 0)
        /\ UNCHANGED dev

\* Lines 188-196 and 203-211: the value is computed, the semaphore
\* released, the value copied to the user.
GetSpace(p) ==
    /\ pc[p] = "g_crit"
    /\ Up(p)
    /\ pc' = Idle(p)
    /\ LET v == IF op[p] = "getfree" THEN FreeSpace ELSE UsedSpace IN
         \E fault \in BOOLEAN :
            IF fault
              THEN /\ Return(p, op[p], "EFAULT", 0, <<>>, 0)
                   /\ UNCHANGED snap
              ELSE /\ Return(p, op[p], "none", v, <<>>, 0)
                   /\ snap' = IF hist /\ op[p] = "getfree"
                                THEN [set |-> TRUE, val |-> v] ELSE snap
    /\ UNCHANGED <<data, buffer_size, head, tail, fifo>>

\* ------------------------------------------------------- open and release
AccModes == {"O_RDONLY", "O_WRONLY", "O_RDWR"}

\* The frame of the steps of open and release.
FileFrame == UNCHANGED <<ring, nb, cnt, ubuf, arg, hist, fifo, snap>>

\* The open or release of process p returns errno e ("none": success).
FileReturn(p, o, e) ==
    /\ pc' = Idle(p)
    /\ op' = [op EXCEPT ![p] = "none"]
    /\ last' = IF hist
                 THEN [op |-> o, err |-> e, val |-> 0, buf |-> <<>>, arg |-> 0]
                 ELSE last

\* dm510_open is called on a new file of process p (lines 36-40).
OpenCall(p) ==
    /\ pc[p] = "idle"
    /\ f_flags[p] = "none"
    /\ \E mode \in AccModes : f_flags' = [f_flags EXCEPT ![p] = mode]
    /\ pc' = [pc EXCEPT ![p] = "o_down"]
    /\ op' = [op EXCEPT ![p] = "open"]
    /\ FileFrame
    /\ UNCHANGED <<sem, held, last, nreaders, nwriters>>

\* down_interruptible succeeds (line 42).
OpenDown(p) ==
    /\ pc[p] = "o_down"
    /\ Down(p)
    /\ pc' = [pc EXCEPT ![p] = "o_crit"]
    /\ FileFrame
    /\ UNCHANGED <<op, last, files>>

\* A signal arrives while the process sleeps in the down_interruptible of
\* line 42: the open returns -ERESTARTSYS and the process has no file.
OpenInterrupt(p) ==
    /\ pc[p] = "o_down"
    /\ sem = 0
    /\ FileReturn(p, "open", "ERESTARTSYS")
    /\ f_flags' = [f_flags EXCEPT ![p] = "none"]
    /\ FileFrame
    /\ UNCHANGED <<sem, held, nreaders, nwriters>>

\* Open without the up of line 47: the refused opener returns -EBUSY with
\* the semaphore taken.
OpenBusyNoUp(p) ==
    /\ pc[p] = "o_crit"
    /\ IF f_flags[p] = "O_WRONLY" /\ nwriters # 0
         THEN /\ FileReturn(p, "open", "EBUSY")
              /\ f_flags' = [f_flags EXCEPT ![p] = "none"]
              /\ UNCHANGED <<nreaders, nwriters, sem, held>>
         ELSE /\ Up(p)
              /\ FileReturn(p, "open", "none")
              /\ nwriters' = IF f_flags[p] = "O_WRONLY" THEN nwriters + 1
                                                        ELSE nwriters
              /\ nreaders' = IF f_flags[p] = "O_RDONLY" THEN nreaders + 1
                                                        ELSE nreaders
              /\ UNCHANGED f_flags
    /\ FileFrame

\* Open with the writer counted although there is one (no test of line 46).
OpenNoTest(p) ==
    /\ pc[p] = "o_crit"
    /\ Up(p)
    /\ FileReturn(p, "open", "none")
    /\ nwriters' = IF f_flags[p] = "O_WRONLY" THEN nwriters + 1 ELSE nwriters
    /\ nreaders' = IF f_flags[p] = "O_RDONLY" THEN nreaders + 1 ELSE nreaders
    /\ UNCHANGED f_flags
    /\ FileFrame

\* Lines 45-57: a second write-only opener is refused with -EBUSY;
\* otherwise the opener is counted. The semaphore is released.
Open(p) ==
    /\ pc[p] = "o_crit"
    /\ Up(p)
    /\ IF f_flags[p] = "O_WRONLY" /\ nwriters # 0
         THEN /\ FileReturn(p, "open", "EBUSY")
              /\ f_flags' = [f_flags EXCEPT ![p] = "none"]
              /\ UNCHANGED <<nreaders, nwriters>>
         ELSE /\ FileReturn(p, "open", "none")
              /\ nwriters' = IF f_flags[p] = "O_WRONLY" THEN nwriters + 1
                                                        ELSE nwriters
              /\ nreaders' = IF f_flags[p] = "O_RDONLY" THEN nreaders + 1
                                                        ELSE nreaders
              /\ UNCHANGED f_flags
    /\ FileFrame

\* dm510_release is called on the file of process p (lines 60-61): the file
\* was opened and the process is in no call on it.
ReleaseCall(p) ==
    /\ Opened(p, "release")
    /\ pc' = [pc EXCEPT ![p] = "c_down"]
    /\ op' = [op EXCEPT ![p] = "release"]
    /\ FileFrame
    /\ UNCHANGED <<sem, held, last, files>>

\* down succeeds (line 63).
ReleaseDown(p) ==
    /\ pc[p] = "c_down"
    /\ Down(p)
    /\ pc' = [pc EXCEPT ![p] = "c_crit"]
    /\ FileFrame
    /\ UNCHANGED <<op, last, files>>

\* Lines 64-69: the opener is counted out, the semaphore released.
Release(p) ==
    /\ pc[p] = "c_crit"
    /\ Up(p)
    /\ FileReturn(p, "release", "none")
    /\ nwriters' = IF f_flags[p] = "O_WRONLY" THEN nwriters - 1 ELSE nwriters
    /\ nreaders' = IF f_flags[p] = "O_RDONLY" THEN nreaders - 1 ELSE nreaders
    /\ f_flags' = [f_flags EXCEPT ![p] = "none"]
    /\ FileFrame

\* ------------------------------------------------------------------- Next
\* One step of process p.
Step(p) ==
    \/ ReadCall(p)
    \/ ReadDown(p)
    \/ ReadEmptyStep(p)
    \/ ReadCopy(p)
    \/ ReadWait(p)
    \/ WriteCall(p)
    \/ WriteDown(p)
    \/ WriteFullStep(p)
    \/ WriteCopy(p)
    \/ WriteWait(p)
    \/ Interrupt(p)
    \/ GetSize(p)
    \/ SetSizeRefuse(p)
    \/ SetSizeCall(p)
    \/ IoctlDown(p)
    \/ SetSize(p)
    \/ GetSpaceCall(p)
    \/ GetSpace(p)

\* The processes run concurrently.
Next == \E p \in Procs : Step(p)

Spec == Init /\ [][Next]_vars

\* One call at a time: a process steps only while the others are in no
\* call. The history variables are kept.
SeqInit ==
    /\ InitDev
    /\ hist = TRUE
    /\ fifo = [phase |-> "w", wr |-> <<>>, rd |-> <<>>]
    /\ f_flags = [p \in Procs |-> "O_RDWR"]

SeqNext == \E p \in Procs :
    /\ \A q \in Procs \ {p} : pc[q] = "idle"
    /\ Step(p)

SeqSpec == SeqInit /\ [][SeqNext]_vars

\* The steps of a call in progress that the kernel takes without waiting
\* for anything but the semaphore: all but the entry into a call and the
\* arrival of a signal.
Run(p) ==
    \/ ReadDown(p)
    \/ ReadEmptyStep(p)
    \/ ReadCopy(p)
    \/ ReadWait(p)
    \/ WriteDown(p)
    \/ WriteFullStep(p)
    \/ WriteCopy(p)
    \/ WriteWait(p)
    \/ IoctlDown(p)
    \/ SetSize(p)
    \/ GetSpace(p)

\* The processes run concurrently, and a process that can run does run: a
\* call in progress is not suspended forever unless it sleeps on a wait
\* queue or waits for the semaphore.
LiveSpec == Init /\ [][Next]_vars /\ \A p \in Procs : WF_vars(Run(p))

\* The device is used in either way: by concurrent processes, or one call
\* at a time with the history variables kept.
EitherInit ==
    /\ InitDev
    /\ hist \in BOOLEAN
    /\ fifo = IF hist THEN [phase |-> "w", wr |-> <<>>, rd |-> <<>>] ELSE NoFifo
    /\ f_flags = [p \in Procs |-> "O_RDWR"]

EitherNext == \E p \in Procs :
    /\ hist => \A q \in Procs \ {p} : pc[q] = "idle"
    /\ Step(p)

EitherSpec == EitherInit /\ [][EitherNext]_vars

\* One step of process p in open or release.
FileStep(p) ==
    \/ OpenCall(p)
    \/ OpenDown(p)
    \/ OpenInterrupt(p)
    \/ Open(p)
    \/ ReleaseCall(p)
    \/ ReleaseDown(p)
    \/ Release(p)

\* No process has a file at first; the processes open the device, use it
\* and release it. Opens and releases run concurrently with each other and
\* with the reads, writes and ioctls, of which one is in progress at a time.
FileInit ==
    /\ InitDev
    /\ hist = FALSE
    /\ fifo = NoFifo
    /\ f_flags = [p \in Procs |-> "none"]

FileNext == \E p \in Procs :
    \/ FileStep(p)
    \/ /\ \A q \in Procs \ {p} : op[q] \in {"none", "open", "release"}
       /\ Step(p)

FileSpec == FileInit /\ [][FileNext]_vars

\* ================================================================= claims
Quiescent == \A p \in Procs : pc[p] = "idle"
IsPrefix(a, b) ==
    /\ Len(a) <= Len(b)
    /\ \A i \in 1..Len(a) : a[i] = b[i]

\* The write of process p returns in this step, having accepted n > 0 bytes.
WriteAccepts(p) ==
    /\ pc[p] = "w_check"
    /\ pc'[p] = "idle"
    /\ last'.op = "write"
    /\ last'.err = "none"
    /\ last'.val > 0

\* The bytes at the ring positions head, head+1, ... of the `used` unread
\* bytes are the same before and after the step.
UnreadKept ==
    \A i \in 0..(UsedSpace - 1) :
        LET j == (head + i) % BUFFER_SIZE IN
            (j \in DOMAIN data /\ j \in DOMAIN data') => data'[j] = data[j]

\* C1 (as claimed): FIFO. While only writes and then only reads have
\* succeeded since the channel was created, and the writes accepted at most
\* capacity bytes, the bytes the reads delivered are the first of the bytes
\* the writes accepted, in order; and the channel is not empty before the
\* reads have delivered all of them.
C1_Fifo ==
    fifo.phase # "x" =>
        /\ IsPrefix(fifo.rd, fifo.wr)
        /\ ReadEmpty => fifo.rd = fifo.wr

\* C2 (as claimed): a write that returns n > 0 accepted at most capacity -
\* used bytes, used grows by exactly n, and no unread byte is changed; a
\* write of at least one byte that finds no free space blocks or returns
\* -EAGAIN.
C2_WriteKeepsBytes ==
    [][\A p \in Procs :
          /\ WriteAccepts(p) =>
                /\ last'.val <= buffer_size - UsedSpace
                /\ UsedSpace' = UsedSpace + last'.val
                /\ UnreadKept
          /\ (pc[p] = "w_check" /\ cnt[p] > 0 /\ buffer_size - UsedSpace <= 0
              /\ pc'[p] # "w_check") =>
                \/ pc'[p] = "w_wait"
                \/ pc'[p] = "idle" /\ last'.err = "EAGAIN"]_vars

\* C3 (as claimed): in every reachable state 0 <= used <= capacity and
\* capacity >= 1.
C3_UsedInBounds ==
    /\ 0 <= UsedSpace
    /\ UsedSpace <= buffer_size
    /\ buffer_size >= 1

SetSizeSucceeds(p) ==
    /\ pc[p] = "s_crit"
    /\ pc'[p] = "idle"
    /\ last'.op = "setsize"
    /\ last'.err = "none"

\* C5 (as claimed): a SET_BUFFER_SIZE with new_size >= used that succeeds
\* leaves used unchanged, and the unread bytes, read from the new head on,
\* are the unread bytes of before, in order.
C5_ResizeKeepsBytes ==
    [][\A p \in Procs :
          (SetSizeSucceeds(p) /\ arg[p] >= UsedSpace) =>
              /\ UsedSpace' = UsedSpace
              /\ \A i \in 0..(UsedSpace - 1) :
                    LET old == (head + i) % BUFFER_SIZE
                        new == (head' + i) % BUFFER_SIZE IN
                        (old \in DOMAIN data /\ new \in DOMAIN data') =>
                            data'[new] = data[old]]_vars

\* C6: a SET_BUFFER_SIZE with 0 < new_size < used returns -EINVAL (the
\* errno of a refusal) and leaves buffer_size, head, tail (hence used) and
\* the buffer's bytes unchanged.
C6_ShrinkBelowUsedRefused ==
    [][\A p \in Procs :
          (pc[p] = "s_crit" /\ pc'[p] # "s_crit"
           /\ 0 < arg[p] /\ arg[p] < UsedSpace) =>
              /\ pc'[p] = "idle"
              /\ last'.op = "setsize"
              /\ last'.err = "EINVAL"
              /\ UNCHANGED <<data, buffer_size, head, tail>>]_vars

\* A SET_BUFFER_SIZE with 0 < new_size < used has returned -EINVAL.
C6_Witness ==
    /\ Quiescent
    /\ last.op = "setsize" /\ last.err = "EINVAL"
    /\ 0 < last.arg /\ last.arg < UsedSpace

\* C7 (as claimed): process a sleeps in a blocking read of the empty
\* channel and process b's write of k >= 1 bytes that fit returns a count
\* (it wakes the readers): then the channel holds exactly b's k bytes, in
\* order, for a to read, and a's wait condition is true.
C7_SleepingReaderGetsWrite ==
    [][\A a, b \in Procs :
          (/\ a # b
           /\ pc[a] = "r_sleep" /\ UsedSpace = 0
           /\ pc[b] = "w_check" /\ cnt[b] >= 1 /\ cnt[b] <= FreeSpace
           /\ pc'[b] = "idle" /\ pc'[a] = "r_wait") =>
              /\ ~ReadEmpty'
              /\ UsedSpace' = cnt[b]
              /\ \A i \in 1..cnt[b] :
                    LET j == (head' + i - 1) % BUFFER_SIZE IN
                        j \in DOMAIN data' /\ data'[j] = ubuf[b][i]]_vars

\* C8 (as claimed): a non-blocking write returns -EAGAIN exactly when used
\* = capacity, and then changes nothing of the ring.
C8_WouldBlockExactlyWhenFull ==
    [][\A p \in Procs :
          (pc[p] = "w_check" /\ nb[p] /\ pc'[p] # "w_check") =>
              IF UsedSpace = buffer_size
                THEN last'.err = "EAGAIN" /\ UNCHANGED ring
                ELSE last'.err # "EAGAIN"]_vars

Suspended == {"r_wait", "r_sleep", "w_wait", "w_sleep"}

\* C9: no process is suspended for data or space while it holds the
\* semaphore; and a read or write that changes head, tail or the buffer
\* holds the semaphore and has, in the same critical section, found its
\* predicate true (head # tail for read, not full for write).
C9_SuspendDiscipline ==
    /\ [](\A p \in Procs : pc[p] \in Suspended => p \notin held)
    /\ [][\A p \in Procs :
            (pc[p] \in {"r_check", "w_check"} /\ pc'[p] # pc[p]) =>
                /\ p \in held
                /\ (pc[p] = "r_check" /\ ring' # ring) => ~ReadEmpty
                /\ (pc[p] = "w_check" /\ ring' # ring) => ~WriteFull
                /\ pc'[p] \in Suspended => p \notin held']_vars

\* A process sleeps on a wait queue while another one has taken the
\* semaphore and is in its critical section.
C9_Witness ==
    \E p, q \in Procs :
        /\ pc[p] \in {"r_sleep", "w_sleep"} /\ p \notin held
        /\ pc[q] \in {"r_check", "w_check"} /\ q \in held

\* C10 (as claimed): a non-blocking read that finds used = 0 returns
\* -EAGAIN at once, with head, tail, the buffer and buffer_size unchanged
\* and the semaphore released; one that finds used > 0 does not return
\* -EAGAIN.
C10_NonBlockingRead ==
    [][\A p \in Procs :
          (pc[p] = "r_check" /\ nb[p] /\ pc'[p] # "r_check") =>
              /\ UsedSpace = 0 =>
                    /\ pc'[p] = "idle" /\ last'.err = "EAGAIN"
                    /\ UNCHANGED ring
                    /\ p \notin held' /\ sem' = sem + 1
              /\ UsedSpace > 0 => last'.err # "EAGAIN"]_vars

\* The positions where a read or write is blocked and a signal ends it:
\* in down_interruptible, in wait_event_interruptible.
Blocked == {"r_down", "w_down", "r_sleep", "w_sleep"}

\* C11: a read or write that is interrupted while it sleeps on its wait
\* queue or waits for the semaphore returns -ERESTARTSYS (where return
\* values are recorded), leaves head, tail, buffer_size and the buffer as
\* they are, wakes nobody, does not hold the semaphore on return and leaves
\* its count as it is, and the call is over: it does not go back to wait or
\* to copy.
C11_InterruptedReturns ==
    [][\A p \in Procs :
          (pc[p] \in Blocked /\ pc'[p] = "idle") =>
              /\ hist => /\ last'.op = op[p]
                         /\ last'.err = "ERESTARTSYS"
                         /\ last'.val = 0 /\ last'.buf = <<>>
              /\ UNCHANGED ring
              /\ pc' = Idle(p)
              /\ p \notin held'
              /\ held' = held /\ sem' = sem
              /\ op'[p] = "none"]_vars

\* A process waits in down_interruptible for the semaphore another process
\* has taken, and the ring holds unread bytes: a signal ends the call there.
C11_Witness ==
    \E p \in Procs :
        /\ pc[p] \in {"r_down", "w_down"}
        /\ sem = 0
        /\ ~ReadEmpty

\* C12 (as claimed): while process w sleeps in a blocking write of the full
\* channel, process s is about to install a capacity above the present one
\* and above used (it holds the semaphore, its SET_BUFFER_SIZE passes the
\* test of line 160): then, under fair scheduling, w leaves its sleep to
\* test its predicate again, or a reader has come to run.
C12_ResizeWakesWriter ==
    \A w, s \in Procs :
        (/\ pc[w] = "w_sleep" /\ WriteFull
         /\ pc[s] = "s_crit" /\ arg[s] > buffer_size /\ arg[s] > UsedSpace
         /\ \A q \in Procs : op[q] # "read")
        ~> (pc[w] # "w_sleep" \/ \E q \in Procs : op[q] = "read")

\* The processes between the down and the up of a read or write.
InCopy == {p \in Procs : pc[p] \in {"r_check", "w_check"}}

\* C13: at most one call is between its down and its up, so no two writes
\* copy at the same time; and the write that moves tail has stored the n
\* bytes it accepts (n is the count it returns, line 124) at the n
\* consecutive positions tail, ..., tail + n - 1, which do not wrap, has
\* changed no other byte and has moved tail to the position after them
\* (modulo BUFFER_SIZE), where the next write begins. A position outside
\* the allocation is not part of the buffer.
C13_WriterChunkContiguous ==
    /\ [](Cardinality(held) <= 1 /\ InCopy \subseteq held)
    /\ [][\A p \in Procs :
            (pc[p] = "w_check" /\ pc'[p] = "idle" /\ tail' # tail) =>
                LET n == WriteCount(cnt[p]) IN
                    /\ held = {p}
                    /\ tail <= BUFFER_SIZE => tail + n <= BUFFER_SIZE
                    /\ \A i \in DOMAIN data' :
                          data'[i] = IF i >= tail /\ i < tail + n
                                       THEN ubuf[p][i - tail + 1]
                                       ELSE data[i]
                    /\ tail' = (tail + n) % BUFFER_SIZE
                    /\ \A q \in Procs \ {p} : pc[q] = "w_down" =>
                          pc'[q] = "w_down" /\ ubuf'[q] = ubuf[q]]_vars

\* One write is in its critical section, with two bytes to store in a ring
\* that holds unread bytes, while another write of at least one byte waits
\* for the semaphore.
C13_Witness ==
    \E p, q \in Procs :
        /\ pc[p] = "w_check" /\ ~WriteFull /\ WriteCount(cnt[p]) = 2
        /\ pc[q] = "w_down" /\ cnt[q] >= 1
        /\ ~ReadEmpty

ControlOps == {"getsize", "setsize", "getused", "getfree"}

\* C14 (as claimed): a control operation that returns success has read or
\* changed the channel fields between its down and its up (it is the
\* process that holds the semaphore and leaves its critical section in the
\* step), and no process in a control operation is ever on a wait queue.
C14_ControlOpsHoldLock ==
    /\ [](\A p \in Procs : op[p] \in ControlOps => pc[p] \notin Suspended)
    /\ [][(last' # last /\ last'.op \in ControlOps /\ last'.err = "none") =>
            \E p \in held :
                /\ pc[p] \in {"s_crit", "g_crit"}
                /\ pc'[p] = "idle"]_vars

\* The read of process p returns a count in this step.
ReadReturnsCount(p) ==
    /\ pc[p] = "r_check"
    /\ pc'[p] = "idle"
    /\ last'.op = "read"
    /\ last'.err = "none"

\* head and tail are indices of the buffer, whose size is the one read and
\* write reckon with.
RingInRange ==
    /\ buffer_size = BUFFER_SIZE
    /\ InAlloc(head)
    /\ InAlloc(tail)

\* C15 (as claimed): a read that finds used > 0, in a ring whose head and
\* tail are in range, returns min(count, used) bytes, and returns fewer
\* than count only when it leaves used = 0.
C15_ReadReturnsMinOfCountAndUsed ==
    [][\A p \in Procs :
          (ReadReturnsCount(p) /\ UsedSpace > 0 /\ RingInRange) =>
              /\ last'.val = Min(cnt[p], UsedSpace)
              /\ Len(last'.buf) = last'.val
              /\ last'.val < cnt[p] => UsedSpace' = 0]_vars

\* C16 (as claimed): in every reachable state head and tail are indices of
\* the present buffer, 0 <= head < buffer_size and 0 <= tail < buffer_size.
C16_HeadTailInCapacity ==
    /\ 0 <= head /\ head < buffer_size
    /\ 0 <= tail /\ tail < buffer_size

\* C17 (as claimed): at a quiescent point, while only writes and then only
\* reads have succeeded since the channel was created (no resize), the
\* value GET_BUFFER_USED_SPACE has just returned is the number of bytes the
\* writes accepted less the number the reads delivered.
C17_UsedIsAcceptedLessRead ==
    (/\ Quiescent
     /\ fifo.phase # "x" /\ Len(fifo.rd) <= Len(fifo.wr)
     /\ last.op = "getused" /\ last.err = "none") =>
        last.val = Len(fifo.wr) - Len(fifo.rd)

\* The positions where a call waits for the semaphore.
AtDown == {"r_down", "w_down", "s_down", "g_down", "o_down", "c_down"}

\* C18: the semaphore's count is 0 or 1 and at most one process is between
\* a down and the up that follows it (the count is 0 exactly then); no
\* process that is in no call holds the semaphore, so at a quiescent point
\* the count is 1; and every step in which an open, release, read, write
\* or ioctl returns leaves the caller without the semaphore, having
\* released it once if the caller held it and not at all otherwise.
C18_SemaphoreReleased ==
    /\ [](/\ sem \in {0, 1}
          /\ Cardinality(held) = 1 - sem
          /\ \A p \in Procs : pc[p] = "idle" => p \notin held
          /\ Quiescent => sem = 1)
    /\ [][\A p \in Procs :
            (pc[p] # "idle" /\ pc'[p] = "idle") =>
                /\ p \notin held'
                /\ sem' = IF p \in held THEN sem + 1 ELSE sem]_vars

\* An open or a release is in its critical section while another call
\* waits for the semaphore, and the device has a write-only opener.
C18_Witness ==
    \E p, q \in Procs :
        /\ pc[p] \in {"o_crit", "c_crit"} /\ p \in held
        /\ pc[q] \in AtDown
        /\ nwriters = 1

\* The read or write of process p does its copy in this step, of at least
\* one byte, and the step leaves head and tail where they are: the copy
\* has faulted.
CopyFaults(p) ==
    /\ pc[p] \in {"r_check", "w_check"}
    /\ pc'[p] = "idle"
    /\ IF pc[p] = "r_check" THEN ~ReadEmpty /\ ReadCount(cnt[p]) > 0
                            ELSE ~WriteFull /\ WriteCount(cnt[p]) > 0
    /\ UNCHANGED <<head, tail>>

\* C19: a read or write that returns -EFAULT has left head, tail and
\* buffer_size (hence used) unchanged and has released the semaphore, and a
\* read that does so has left the buffer's bytes unchanged; and the read or
\* write whose copy faults returns nothing else than -EFAULT, wakes no
\* process that sleeps on a wait queue and changes no other process's
\* position.
C19_FaultChangesNothing ==
    [][\A p \in Procs :
          /\ (/\ pc[p] \in {"r_check", "w_check"} /\ pc'[p] = "idle"
              /\ hist /\ last'.err = "EFAULT") =>
                 /\ UNCHANGED <<head, tail, buffer_size>>
                 /\ UsedSpace' = UsedSpace
                 /\ pc[p] = "r_check" => data' = data
                 /\ p \in held /\ held' = {} /\ sem' = 1
          /\ CopyFaults(p) =>
                 /\ hist => last'.err = "EFAULT" /\ last'.val = 0
                 /\ pc' = Idle(p)
                 /\ held' = {} /\ sem' = 1]_vars

\* A write has just returned -EFAULT on a ring that holds unread bytes.
C19_Witness ==
    /\ hist /\ Quiescent /\ ~ReadEmpty
    /\ last.op = "write" /\ last.err = "EFAULT"

\* The processes whose file of access mode m is open: their open has
\* succeeded and their release has not done its work yet.
Openers(m) ==
    {p \in Procs : f_flags[p] = m /\ pc[p] \notin {"o_down", "o_crit"}}

\* C20: nwriters is 0 or 1 and is the number of write-only openers,
\* nreaders is never negative and is the number of read-only openers (so
\* each release has undone the increment of its open, and nothing else);
\* a write-only open that finds nwriters = 1 fails (-EBUSY is its only
\* failure in the critical section; the process is left without a file)
\* and changes neither counter; and a release takes 1 from the counter of
\* its file's access mode and leaves the other one.
C20_OpenersCounted ==
    /\ [](/\ nwriters \in {0, 1}
          /\ nreaders >= 0
          /\ nwriters = Cardinality(Openers("O_WRONLY"))
          /\ nreaders = Cardinality(Openers("O_RDONLY")))
    /\ [][\A p \in Procs :
            /\ (/\ pc[p] = "o_crit" /\ pc'[p] # "o_crit"
                /\ f_flags[p] = "O_WRONLY" /\ nwriters = 1) =>
                   /\ pc'[p] = "idle"
                   /\ f_flags'[p] = "none"
                   /\ UNCHANGED <<nreaders, nwriters>>
            /\ (pc[p] = "c_crit" /\ pc'[p] # "c_crit") =>
                   /\ nwriters' = nwriters -
                         (IF f_flags[p] = "O_WRONLY" THEN 1 ELSE 0)
                   /\ nreaders' = nreaders -
                         (IF f_flags[p] = "O_RDONLY" THEN 1 ELSE 0)]_vars

\* The device has a write-only opener, and the open of a second one is in
\* its critical section.
C20_Witness ==
    /\ nwriters = 1
    /\ \E p \in Procs : pc[p] = "o_crit" /\ f_flags[p] = "O_WRONLY"
====
